---- MODULE Spec2Model ----
(***************************************************************************)
(* A model of the OpenFst header reader/writer (src/lib/fst.cc) and of the *)
(* two command line tools fstconvert and fsttopsort.                       *)
(*                                                                         *)
(* Streams are sequences of bytes with the iostream state bits.  Integers  *)
(* are encoded at their declared width, in two's complement, low byte      *)
(* first.  A 32 bit value is an integer in -2^31 .. 2^31-1; a 64 bit value *)
(* is a record [hi, lo] of two 32 bit words.                               *)
(***************************************************************************)
EXTENDS Integers, Sequences, FiniteSets, TLC

VARIABLES prog, istrm, ostrm, hdr, rcalls, wcalls, src, flagmode, opts, log,
          pc, argc, flagtype, infile, heap, ifst, ofst, acyclic, outfile, exitcode

vars == <<prog, istrm, ostrm, hdr, rcalls, wcalls, src, flagmode, opts, log,
          pc, argc, flagtype, infile, heap, ifst, ofst, acyclic, outfile, exitcode>>

hdrvars == <<istrm, ostrm, hdr, rcalls, wcalls, src>>
optvars == <<flagmode, opts>>
toolvars == <<pc, argc, flagtype, infile, heap, ifst, ofst, acyclic, outfile, exitcode>>

----------------------------------------------------------------------------
(* Bounds of the model. *)

\* Number of FstHeader::Read calls made on one input stream.
MaxReads == 2
\* Number of FstHeader::Write calls made on one output stream.
MaxWrites == 1
\* Largest number of states of an automaton handed to the tools.
MaxStates == 2

----------------------------------------------------------------------------
(* Fixed width encoding. *)

kFstMagicNumber == 2125659606

\* The four bytes of a non-negative value below 2^31, low byte first.
LE31(u) == << u % 256, (u \div 256) % 256, (u \div 65536) % 256, u \div 16777216 >>

\* Two's complement bytes of a 32 bit value.
Int32Bytes(v) ==
  IF v >= 0 THEN LE31(v)
  ELSE LET b == LE31((v + 2147483647) + 1) IN << b[1], b[2], b[3], b[4] + 128 >>

\* The 32 bit value four bytes stand for.
BytesInt32(b) ==
  LET low == b[1] + 256 * b[2] + 65536 * b[3] IN
  IF b[4] < 128 THEN low + 16777216 * b[4]
  ELSE ((low + 16777216 * (b[4] - 128)) - 2147483647) - 1

\* A 64 bit value from a small integer (sign extended).
I64(v) == [hi |-> IF v < 0 THEN -1 ELSE 0, lo |-> v]

Int64Bytes(w) == Int32Bytes(w.lo) \o Int32Bytes(w.hi)

BytesInt64(b) == [lo |-> BytesInt32(SubSeq(b, 1, 4)), hi |-> BytesInt32(SubSeq(b, 5, 8))]

\* Unsigned order of two 32 bit words, signed order of two 64 bit values.
ULess32(x, y) == IF (x < 0) = (y < 0) THEN x < y ELSE y < 0
Less64(a, b) == a.hi < b.hi \/ (a.hi = b.hi /\ ULess32(a.lo, b.lo))

\* A length-prefixed string: its length as an int32, then its characters.
StringBytes(s) == Int32Bytes(Len(s)) \o s

----------------------------------------------------------------------------
(* Input streams: [buf, gpos, eof, fail]. *)

NoStream == [closed |-> TRUE]

IStream(bytes, pos) == [buf |-> bytes, gpos |-> pos, eof |-> FALSE, fail |-> FALSE]

\* std::istream::tellg: -1 on a failed stream.
tellg(s) == IF s.fail THEN -1 ELSE s.gpos

\* std::istream::seekg: clears eofbit, then does nothing on a failed stream.
seekg(s, pos) ==
  LET s1 == [s EXCEPT !.eof = FALSE] IN
  IF s1.fail THEN s1
  ELSE IF pos >= 0 /\ pos <= Len(s1.buf) THEN [s1 EXCEPT !.gpos = pos]
  ELSE [s1 EXCEPT !.fail = TRUE]

\* std::istream::read of n bytes: the bytes extracted and the stream after.
\* A stream that is not good extracts nothing; a short read extracts what is
\* left and sets eofbit and failbit.
IRead(s, n) ==
  IF s.fail \/ s.eof THEN [strm |-> [s EXCEPT !.fail = TRUE], bytes |-> <<>>]
  ELSE IF s.gpos + n <= Len(s.buf)
       THEN [strm |-> [s EXCEPT !.gpos = s.gpos + n],
             bytes |-> SubSeq(s.buf, s.gpos + 1, s.gpos + n)]
       ELSE [strm |-> [s EXCEPT !.gpos = Len(s.buf), !.eof = TRUE, !.fail = TRUE],
             bytes |-> SubSeq(s.buf, s.gpos + 1, Len(s.buf))]

\* The bytes of the destination after a read: the extracted bytes overwrite its
\* leading bytes, the rest keeps its old content.
Overlay(old, got) == got \o SubSeq(old, Len(got) + 1, Len(old))

\* ReadType for an int32 and for a 64 bit integer; old is the destination's
\* value before the call.
ReadInt32(s, old) ==
  LET r == IRead(s, 4) IN
  [strm |-> r.strm, val |-> BytesInt32(Overlay(Int32Bytes(old), r.bytes))]

ReadInt64(s, old) ==
  LET r == IRead(s, 8) IN
  [strm |-> r.strm, val |-> BytesInt64(Overlay(Int64Bytes(old), r.bytes))]

\* ReadType for a string: the length, then that many characters.  On a short
\* read the string holds the characters that were left.
ReadString(s) ==
  LET n == ReadInt32(s, 0) IN
  IF n.val <= 0 THEN [strm |-> n.strm, val |-> <<>>]
  ELSE LET r == IRead(n.strm, n.val) IN [strm |-> r.strm, val |-> r.bytes]

----------------------------------------------------------------------------
(* Output streams: [buf, bad, cap]; the device takes cap bytes and then   *)
(* faults.                                                                *)

OStream(capacity) == [buf |-> <<>>, bad |-> FALSE, cap |-> capacity]

\* std::ostream::write: nothing on a faulted stream; a write past the capacity
\* stores what fits and sets badbit.
OWrite(s, bytes) ==
  IF s.bad THEN s
  ELSE IF Len(s.buf) + Len(bytes) <= s.cap THEN [s EXCEPT !.buf = s.buf \o bytes]
  ELSE [s EXCEPT !.buf = s.buf \o SubSeq(bytes, 1, s.cap - Len(s.buf)), !.bad = TRUE]

WriteInt32(s, v) == OWrite(s, Int32Bytes(v))
WriteInt64(s, w) == OWrite(s, Int64Bytes(w))
WriteString(s, str) == OWrite(WriteInt32(s, Len(str)), str)

----------------------------------------------------------------------------
(* FstHeader. *)

\* A default constructed header.
FstHeaderInit ==
  [fsttype_ |-> <<>>, arctype_ |-> <<>>, version_ |-> 0, flags_ |-> 0,
   properties_ |-> I64(0), start_ |-> I64(-1), numstates_ |-> I64(0),
   numarcs_ |-> I64(0)]

\* Log lines: severity, message, argument.
ErrBadHeader == <<"ERROR", "FstHeader::Read: Bad FST header. Magic number not matched", "">>
ErrReadFailed == <<"ERROR", "FstHeader::Read: Read failed", "">>

\* ReadBadMagic without the seekg.
ReadBadMagic_NoRewind(m, h, rewind, pos) ==
  [strm |-> m.strm, hdr |-> h, ret |-> FALSE, log |-> <<ErrBadHeader>>,
   magic |-> m.val, magic_read |-> ~m.strm.fail]

\* FstHeader::Read, the magic number mismatch: m is the result of reading
\* the magic number, pos the position recorded on entry.
ReadBadMagic(m, h, rewind, pos) ==
  [strm |-> IF rewind THEN seekg(m.strm, pos) ELSE m.strm, hdr |-> h,
   ret |-> FALSE, log |-> <<ErrBadHeader>>,
   magic |-> m.val, magic_read |-> ~m.strm.fail]

\* ReadFields with start_ and numstates_ read in the other order.
ReadFields_Swapped(s, h) ==
  LET f1 == ReadString(s)
      f2 == ReadString(f1.strm)
      f3 == ReadInt32(f2.strm, h.version_)
      f4 == ReadInt32(f3.strm, h.flags_)
      f5 == ReadInt64(f4.strm, h.properties_)
      f6 == ReadInt64(f5.strm, h.numstates_)
      f7 == ReadInt64(f6.strm, h.start_)
      f8 == ReadInt64(f7.strm, h.numarcs_)
  IN [strm |-> f8.strm,
      hdr |-> [fsttype_ |-> f1.val, arctype_ |-> f2.val, version_ |-> f3.val,
               flags_ |-> f4.val, properties_ |-> f5.val, start_ |-> f7.val,
               numstates_ |-> f6.val, numarcs_ |-> f8.val]]

\* FstHeader::Read, the eight fields after the magic number, read into h.
ReadFields(s, h) ==
  LET f1 == ReadString(s)
      f2 == ReadString(f1.strm)
      f3 == ReadInt32(f2.strm, h.version_)
      f4 == ReadInt32(f3.strm, h.flags_)
      f5 == ReadInt64(f4.strm, h.properties_)
      f6 == ReadInt64(f5.strm, h.start_)
      f7 == ReadInt64(f6.strm, h.numstates_)
      f8 == ReadInt64(f7.strm, h.numarcs_)
  IN [strm |-> f8.strm,
      hdr |-> [fsttype_ |-> f1.val, arctype_ |-> f2.val, version_ |-> f3.val,
               flags_ |-> f4.val, properties_ |-> f5.val, start_ |-> f6.val,
               numstates_ |-> f7.val, numarcs_ |-> f8.val]]

\* ReadFinish without the seekg on success.
ReadFinish_NoRewind(f, m, rewind, pos) ==
  IF f.strm.fail
  THEN [strm |-> f.strm, hdr |-> f.hdr, ret |-> FALSE, log |-> <<ErrReadFailed>>,
        magic |-> m.val, magic_read |-> TRUE]
  ELSE [strm |-> f.strm, hdr |-> f.hdr,
        ret |-> TRUE, log |-> <<>>, magic |-> m.val, magic_read |-> TRUE]

\* FstHeader::Read, after the fields: f is the result of ReadFields.
ReadFinish(f, m, rewind, pos) ==
  IF f.strm.fail
  THEN [strm |-> f.strm, hdr |-> f.hdr, ret |-> FALSE, log |-> <<ErrReadFailed>>,
        magic |-> m.val, magic_read |-> TRUE]
  ELSE [strm |-> IF rewind THEN seekg(f.strm, pos) ELSE f.strm, hdr |-> f.hdr,
        ret |-> TRUE, log |-> <<>>, magic |-> m.val, magic_read |-> TRUE]

\* FstHeader::Read on stream s into header h.  The result carries the stream
\* and the header after the call, the return value, the lines logged, and the
\* magic number the call compared (magic_read: its four bytes were extracted).
FstHeaderRead(s, h, rewind) ==
  LET pos == IF rewind THEN tellg(s) ELSE 0
      m   == ReadInt32(s, 0)
  IN
  IF m.val # kFstMagicNumber
  THEN ReadBadMagic(m, h, rewind, pos)
  ELSE ReadFinish(ReadFields(m.strm, h), m, rewind, pos)

\* FstHeaderWrite with the flags written before the version.
FstHeaderWrite_Reordered(s, h) ==
  LET s0 == WriteInt32(s, kFstMagicNumber)
      s1 == WriteString(s0, h.fsttype_)
      s2 == WriteString(s1, h.arctype_)
      s3 == WriteInt32(s2, h.flags_)
      s4 == WriteInt32(s3, h.version_)
      s5 == WriteInt64(s4, h.properties_)
      s6 == WriteInt64(s5, h.start_)
      s7 == WriteInt64(s6, h.numstates_)
      s8 == WriteInt64(s7, h.numarcs_)
  IN [strm |-> s8, ret |-> TRUE]

\* FstHeader::Write of header h on stream s: the stream after, and the
\* return value.
FstHeaderWrite(s, h) ==
  LET s0 == WriteInt32(s, kFstMagicNumber)
      s1 == WriteString(s0, h.fsttype_)
      s2 == WriteString(s1, h.arctype_)
      s3 == WriteInt32(s2, h.version_)
      s4 == WriteInt32(s3, h.flags_)
      s5 == WriteInt64(s4, h.properties_)
      s6 == WriteInt64(s5, h.start_)
      s7 == WriteInt64(s6, h.numstates_)
      s8 == WriteInt64(s7, h.numarcs_)
  IN [strm |-> s8, ret |-> TRUE]

----------------------------------------------------------------------------
(* Headers and persisted files the model draws its inputs from. *)

StrVector == <<118, 101, 99, 116, 111, 114>>
StrStandard == <<115, 116, 97, 110, 100, 97, 114, 100>>

\* The pairs (start_state, num_states): no start state, a valid start state,
\* the last state, and two that break the header invariant.
StartStates == { <<I64(-1), I64(0)>>, <<I64(0), I64(1)>>, <<I64(1), I64(2)>>,
                 <<I64(5), I64(2)>>, <<I64(-2), I64(3)>> }

Headers ==
  { [fsttype_ |-> ft, arctype_ |-> StrStandard, version_ |-> v, flags_ |-> 3,
     properties_ |-> p, start_ |-> sn[1], numstates_ |-> sn[2], numarcs_ |-> na] :
      ft \in {<<>>, StrVector}, v \in {-1, 2},
      p \in {[hi |-> -1, lo |-> -1]}, sn \in StartStates,
      na \in {I64(0), [hi |-> 256, lo |-> 7]} }

\* The binary layout of a persisted header.
HeaderLayout(h) ==
  Int32Bytes(kFstMagicNumber) \o StringBytes(h.fsttype_) \o StringBytes(h.arctype_)
    \o Int32Bytes(h.version_) \o Int32Bytes(h.flags_) \o Int64Bytes(h.properties_)
    \o Int64Bytes(h.start_) \o Int64Bytes(h.numstates_) \o Int64Bytes(h.numarcs_)

\* What precedes a header in a file, and what follows it.
Prefixes == { <<>>, <<7, 7, 7>> }
Body == <<1, 2, 3>>

\* Byte i of b changed.
Corrupt(b, i) == [b EXCEPT ![i] = (b[i] + 1) % 256]

\* A file truncated to n bytes after the prefix.
Cuts == {0, 1, 3, 4, 6, 9, 15, 22, 27, 35, 50}

\* Where the bytes of an input stream come from: the headers they encode from
\* position at on, whether they are intact, and who produced them.
NoSource == [hs |-> <<>>, ok |-> FALSE, at |-> 0, by |-> "none"]
Damaged(p) == [hs |-> <<>>, ok |-> FALSE, at |-> Len(p), by |-> "file"]

\* Input streams over files: sound ones, ones with a corrupted magic number
\* and truncated ones, each positioned at the header.
Files ==
  { [strm |-> IStream(p \o HeaderLayout(h) \o Body, Len(p)),
     src |-> [hs |-> <<h>>, ok |-> TRUE, at |-> Len(p), by |-> "file"]] :
       p \in Prefixes, h \in Headers }
  \cup { [strm |-> IStream(p \o Corrupt(HeaderLayout(h), i) \o Body, Len(p)),
          src |-> Damaged(p)] : p \in Prefixes, h \in Headers, i \in {1, 4} }
  \cup { [strm |-> IStream(p \o SubSeq(HeaderLayout(h), 1, c), Len(p)),
          src |-> Damaged(p)] : p \in Prefixes, h \in Headers, c \in Cuts }

\* Capacities of the output device: faults inside the magic number, inside a
\* string, inside the integers, and never.
WriteCaps == {2, 11, 40, 1000}

Progs == {"header", "options", "convert", "topsort"}

----------------------------------------------------------------------------
(* The header reader and writer at work. *)

HdrIdle ==
  /\ istrm = NoStream /\ ostrm = NoStream /\ hdr = FstHeaderInit
  /\ rcalls = <<>> /\ wcalls = <<>> /\ src = NoSource

HdrInit ==
  /\ hdr = FstHeaderInit /\ rcalls = <<>> /\ wcalls = <<>>
  /\ \/ \E f \in Files : istrm = f.strm /\ src = f.src /\ ostrm = NoStream
     \/ istrm = NoStream /\ src = NoSource /\ ostrm \in { OStream(c) : c \in WriteCaps }

\* A call of FstHeader::Read on the input stream.
Read(rewind) ==
  /\ prog = "header" /\ istrm # NoStream /\ Len(rcalls) < MaxReads
  /\ LET r == FstHeaderRead(istrm, hdr, rewind) IN
       /\ istrm' = r.strm
       /\ hdr' = r.hdr
       /\ log' = log \o r.log
       /\ rcalls' = Append(rcalls,
            [rewind |-> rewind, ret |-> r.ret, pos0 |-> istrm.gpos, pos1 |-> r.strm.gpos,
             good0 |-> ~(istrm.fail \/ istrm.eof), magic |-> r.magic,
             magic_read |-> r.magic_read, hdr |-> r.hdr, logged |-> r.log])
  /\ UNCHANGED <<prog, ostrm, wcalls, src, optvars, toolvars>>

\* A call of FstHeader::Write on the output stream.
Write(h) ==
  /\ prog = "header" /\ ostrm # NoStream /\ Len(wcalls) < MaxWrites
  /\ LET w == FstHeaderWrite(ostrm, h) IN
       /\ ostrm' = w.strm
       /\ wcalls' = Append(wcalls, [h |-> h, ret |-> w.ret, bad |-> w.strm.bad,
                                    len0 |-> Len(ostrm.buf)])
  /\ UNCHANGED <<prog, istrm, hdr, rcalls, src, log, optvars, toolvars>>

\* The bytes written are read back: the output stream is closed and an input
\* stream is opened on its content.
Reopen ==
  /\ prog = "header" /\ ostrm # NoStream /\ wcalls # <<>>
  /\ istrm' = IStream(ostrm.buf, 0)
  /\ ostrm' = NoStream
  /\ src' = [hs |-> [i \in 1..Len(wcalls) |-> wcalls[i].h], ok |-> ~ostrm.bad,
             at |-> 0, by |-> "Write"]
  /\ UNCHANGED <<prog, hdr, rcalls, wcalls, log, optvars, toolvars>>

----------------------------------------------------------------------------
(* FstReadOptions. *)

ErrUnknownMode(mode) == <<"ERROR", "Unknown file read mode", mode>>

\* ReadMode with a different fallback.
ReadMode_MapFallback(mode) ==
  IF mode = "read" THEN [mode |-> "READ", log |-> <<>>]
  ELSE IF mode = "map" THEN [mode |-> "MAP", log |-> <<>>]
  ELSE [mode |-> "MAP", log |-> <<ErrUnknownMode(mode)>>]

\* FstReadOptions::ReadMode: the mode and the lines logged.
ReadMode(mode) ==
  IF mode = "read" THEN [mode |-> "READ", log |-> <<>>]
  ELSE IF mode = "map" THEN [mode |-> "MAP", log |-> <<>>]
  ELSE [mode |-> "READ", log |-> <<ErrUnknownMode(mode)>>]

\* Values of the flag fst_read_mode; its default is "read".
ModeStrings == {"read", "map", "bogus", "", "READ", "Map", "reads", "mmap"}

NoOptions == [none |-> TRUE]

OptIdle == flagmode = "read" /\ opts = NoOptions
OptInit == flagmode \in ModeStrings /\ opts = NoOptions

\* FstReadOptions(source, header, isymbols, osymbols).
FstReadOptionsWithHeader(source, header, isymbols, osymbols) ==
  /\ prog = "options" /\ opts = NoOptions
  /\ LET m == ReadMode(flagmode) IN
       /\ opts' = [source |-> source, header |-> header, isymbols |-> isymbols,
                   osymbols |-> osymbols, read_isymbols |-> TRUE,
                   read_osymbols |-> TRUE, mode |-> m.mode]
       /\ log' = log \o m.log
  /\ UNCHANGED <<prog, flagmode, hdrvars, toolvars>>

\* FstReadOptions(source, isymbols, osymbols).
FstReadOptionsNoHeader(source, isymbols, osymbols) ==
  /\ prog = "options" /\ opts = NoOptions
  /\ LET m == ReadMode(flagmode) IN
       /\ opts' = [source |-> source, header |-> "null", isymbols |-> isymbols,
                   osymbols |-> osymbols, read_isymbols |-> TRUE,
                   read_osymbols |-> TRUE, mode |-> m.mode]
       /\ log' = log \o m.log
  /\ UNCHANGED <<prog, flagmode, hdrvars, toolvars>>

Pointers == {"null", "set"}
Sources == {"", "in.fst"}

----------------------------------------------------------------------------
(* Automata and handles.  An automaton is [type, n, arcs, start]: its     *)
(* concrete encoding, its states 0 .. n-1, its arcs as pairs (source,     *)
(* destination) and its start state.  The heap maps the live handles to   *)
(* the automata they own; 0 is the null handle.                           *)

FstTypes == {"vector", "const"}

StatesOf(n) == 0 .. (n - 1)

InputFsts ==
  UNION { { [type |-> t, n |-> n, arcs |-> a, start |-> IF n = 0 THEN -1 ELSE 0] :
              t \in FstTypes, a \in SUBSET (StatesOf(n) \X StatesOf(n)) } :
          n \in 0 .. MaxStates }

\* An input that cannot be read as an automaton.
Unreadable == [type |-> "unreadable", n |-> 0, arcs |-> {}, start |-> -1]

\* FstClass::Read: null on failure, otherwise the automaton the input holds.
FstRead(in) == [ok |-> in # Unreadable, fst |-> in]

EmptyHeap == [i \in {} |-> 0]

\* A handle not in use, and the heap with a new handle h for automaton f.
NewHandle(hp) == CHOOSE i \in 1 .. (Cardinality(DOMAIN hp) + 1) : i \notin DOMAIN hp
Alloc(hp, h, f) == [i \in DOMAIN hp \cup {h} |-> IF i = h THEN f ELSE hp[i]]
Free(hp, h) == [i \in DOMAIN hp \ {h} |-> hp[i]]

\* Properties(kMutable): the growable vector encoding is the mutable one.
IsMutable(f) == f.type = "vector"

\* script::Convert: null for a type the registry does not know, otherwise a
\* new automaton of the requested type with the same states and arcs.
Convert(f, newtype) ==
  IF newtype \in FstTypes THEN [ok |-> TRUE, fst |-> [f EXCEPT !.type = newtype]]
  ELSE [ok |-> FALSE, fst |-> f]

\* VectorFstClass(const FstClass &): a mutable copy.
VectorFstClass(f) == [f EXCEPT !.type = "vector"]

\* The elements of a set of integers in increasing order.
Sorted(S) ==
  CHOOSE q \in [1 .. Cardinality(S) -> S] :
    \A i, j \in 1 .. Cardinality(S) : i < j => q[i] < q[j]

\* F applied to the value of v.
With(v, F(_)) == CHOOSE r \in { F(x) : x \in {v} } : TRUE

\* Depth-first traversal with three colours; an arc into a state on the stack
\* is a back edge.  DfsVisit visits state s, DfsArcs follows the arcs to the
\* destinations ds in turn, DfsAll starts a visit from every state from s on.
RECURSIVE DfsVisit(_, _, _)
RECURSIVE DfsArcs(_, _, _)
DfsVisit(f, s, st) ==
  LET Visit(a) ==
        LET entered == [a[2] EXCEPT !.color[a[1]] = "onstack"]
            ds == Sorted({ b[2] : b \in { c \in f.arcs : c[1] = a[1] } })
            Leave(v) == [v EXCEPT !.color[a[1]] = "finished", !.finish = Append(@, a[1])]
        IN With(DfsArcs(f, ds, entered), Leave)
  IN With(<<s, st>>, Visit)

DfsArcs(f, ds, st) ==
  LET Arcs(a) ==
        IF a[1] = <<>> THEN a[2]
        ELSE LET d == Head(a[1])
                 v == a[2]
             IN DfsArcs(f, Tail(a[1]),
                        IF v.color[d] = "unvisited" THEN DfsVisit(f, d, v)
                        ELSE IF v.color[d] = "onstack" THEN [v EXCEPT !.cyclic = TRUE]
                        ELSE v)
  IN With(<<ds, st>>, Arcs)

RECURSIVE DfsAll(_, _, _)
DfsAll(f, s, st) ==
  LET All(a) ==
        IF a[1] >= f.n THEN a[2]
        ELSE DfsAll(f, a[1] + 1,
                    IF a[2].color[a[1]] = "unvisited" THEN DfsVisit(f, a[1], a[2])
                    ELSE a[2])
  IN With(<<s, st>>, All)

\* TopSort: whether the automaton is acyclic, and the automaton after the
\* call: renumbered by reversed finish order when acyclic, unchanged otherwise.
TopSort(f) ==
  LET Result(st) ==
        LET order == [s \in StatesOf(f.n) |->
                        f.n - (CHOOSE i \in 1 .. f.n : st.finish[i] = s)]
        IN IF st.cyclic THEN [acyclic |-> FALSE, fst |-> f]
           ELSE [acyclic |-> TRUE,
                 fst |-> [f EXCEPT
                   !.arcs = { <<order[a[1]], order[a[2]]>> : a \in f.arcs },
                   !.start = IF f.n = 0 THEN -1 ELSE order[f.start]]]
  IN With(DfsAll(f, 0, [color |-> [s \in StatesOf(f.n) |-> "unvisited"],
                        finish |-> <<>>, cyclic |-> FALSE]), Result)

WarnCyclic == <<"WARNING", "Input FST is cyclic", "">>

NoFile == [status |-> "none"]

\* FstClass::Write: the file after an attempt to write automaton f.
FstWrite(f, ok) == IF ok THEN [status |-> "ok", fst |-> f] ELSE [status |-> "failed"]

ToolIdle ==
  /\ pc = "idle" /\ argc = 1 /\ flagtype = "vector" /\ infile = Unreadable
  /\ heap = EmptyHeap
  /\ ifst = 0 /\ ofst = 0 /\ acyclic = FALSE /\ outfile = NoFile /\ exitcode = -1

\* The flag fst_type; its default is "vector".
TypeStrings == FstTypes \cup {"bogus"}

ToolInit(types) ==
  /\ pc = "args" /\ argc \in 1 .. 4 /\ flagtype \in types
  /\ infile \in InputFsts \cup {Unreadable} /\ heap = EmptyHeap
  /\ ifst = 0 /\ ofst = 0 /\ acyclic = FALSE /\ outfile = NoFile /\ exitcode = -1

Exit(code) == pc' = "done" /\ exitcode' = code

----------------------------------------------------------------------------
(* fstconvert: main. *)

\* The argument count check.
ConvertMainArgs ==
  /\ prog = "convert" /\ pc = "args"
  /\ IF argc > 3 THEN Exit(1) ELSE pc' = "read" /\ UNCHANGED exitcode
  /\ UNCHANGED <<prog, argc, flagtype, infile, heap, ifst, ofst, acyclic, outfile, log,
                 hdrvars, optvars>>

\* ifst = FstClass::Read(in_name); ofst = ifst.
ConvertMainRead ==
  /\ prog = "convert" /\ pc = "read"
  /\ LET r == FstRead(infile)
         h == NewHandle(heap)
     IN IF r.ok
        THEN /\ heap' = Alloc(heap, h, r.fst)
             /\ ifst' = h
             /\ ofst' = h
             /\ pc' = "convert"
             /\ UNCHANGED exitcode
        ELSE /\ Exit(1)
             /\ UNCHANGED <<heap, ifst, ofst>>
  /\ UNCHANGED <<prog, argc, flagtype, infile, acyclic, outfile, log, hdrvars, optvars>>

\* The conversion, when the type read differs from the type asked for.
ConvertMainConvert ==
  /\ prog = "convert" /\ pc = "convert"
  /\ IF heap[ofst].type # flagtype
     THEN LET c == Convert(heap[ifst], flagtype)
              h == NewHandle(heap)
          IN IF c.ok
             THEN /\ heap' = Alloc(heap, h, c.fst)
                  /\ ofst' = h
                  /\ pc' = "write"
                  /\ UNCHANGED exitcode
             ELSE /\ ofst' = 0
                  /\ Exit(1)
                  /\ UNCHANGED heap
     ELSE /\ pc' = "write"
          /\ UNCHANGED <<heap, ofst, exitcode>>
  /\ UNCHANGED <<prog, argc, flagtype, infile, ifst, acyclic, outfile, log, hdrvars, optvars>>

\* ofst->Write(out_name); return 0.
ConvertMainWrite ==
  /\ prog = "convert" /\ pc = "write"
  /\ \E ok \in BOOLEAN : outfile' = FstWrite(heap[ofst], ok)
  /\ Exit(0)
  /\ UNCHANGED <<prog, argc, flagtype, infile, heap, ifst, ofst, acyclic, log, hdrvars, optvars>>

----------------------------------------------------------------------------
(* fsttopsort: main. *)

TopSortMainArgs ==
  /\ prog = "topsort" /\ pc = "args"
  /\ IF argc > 3 THEN Exit(1) ELSE pc' = "read" /\ UNCHANGED exitcode
  /\ UNCHANGED <<prog, argc, flagtype, infile, heap, ifst, ofst, acyclic, outfile, log,
                 hdrvars, optvars>>

\* ifst = FstClass::Read(in_fname).
TopSortMainRead ==
  /\ prog = "topsort" /\ pc = "read"
  /\ LET r == FstRead(infile)
         h == NewHandle(heap)
     IN IF r.ok
        THEN /\ heap' = Alloc(heap, h, r.fst)
             /\ ifst' = h
             /\ pc' = "copy"
             /\ UNCHANGED exitcode
        ELSE /\ Exit(1)
             /\ UNCHANGED <<heap, ifst>>
  /\ UNCHANGED <<prog, argc, flagtype, infile, ofst, acyclic, outfile, log, hdrvars, optvars>>

\* The mutable handle: the one read if it is mutable, otherwise a copy, and
\* the handle read is deleted.
TopSortMainCopy ==
  /\ prog = "topsort" /\ pc = "copy"
  /\ IF IsMutable(heap[ifst])
     THEN /\ ofst' = ifst
          /\ UNCHANGED heap
     ELSE LET h == NewHandle(heap) IN
            /\ ofst' = h
            /\ heap' = Free(Alloc(heap, h, VectorFstClass(heap[ifst])), ifst)
  /\ pc' = "sort"
  /\ UNCHANGED <<prog, argc, flagtype, infile, ifst, acyclic, outfile, exitcode, log,
                 hdrvars, optvars>>

\* TopSortMainSort treating a cycle as an error.
TopSortMainSort_CycleFails ==
  /\ prog = "topsort" /\ pc = "sort"
  /\ \E r \in {TopSort(heap[ofst])} :
       /\ acyclic' = r.acyclic
       /\ heap' = [heap EXCEPT ![ofst] = r.fst]
       /\ log' = IF r.acyclic THEN log ELSE Append(log, WarnCyclic)
       /\ IF r.acyclic THEN pc' = "write" /\ UNCHANGED exitcode ELSE Exit(1)
  /\ UNCHANGED <<prog, argc, flagtype, infile, ifst, ofst, outfile, hdrvars, optvars>>

\* acyclic = TopSort(ofst), and the warning.
TopSortMainSort ==
  /\ prog = "topsort" /\ pc = "sort"
  /\ \E r \in {TopSort(heap[ofst])} :
       /\ acyclic' = r.acyclic
       /\ heap' = [heap EXCEPT ![ofst] = r.fst]
       /\ log' = IF r.acyclic THEN log ELSE Append(log, WarnCyclic)
  /\ pc' = "write"
  /\ UNCHANGED <<prog, argc, flagtype, infile, ifst, ofst, outfile, exitcode, hdrvars, optvars>>

\* ofst->Write(out_fname); return 0.
TopSortMainWrite ==
  /\ prog = "topsort" /\ pc = "write"
  /\ \E ok \in BOOLEAN : outfile' = FstWrite(heap[ofst], ok)
  /\ Exit(0)
  /\ UNCHANGED <<prog, argc, flagtype, infile, heap, ifst, ofst, acyclic, log, hdrvars, optvars>>

----------------------------------------------------------------------------
(* The specification. *)

Init ==
  /\ prog \in Progs
  /\ log = <<>>
  /\ IF prog = "header" THEN HdrInit ELSE HdrIdle
  /\ IF prog = "options" THEN OptInit ELSE OptIdle
  /\ IF prog = "convert" THEN ToolInit(TypeStrings)
     ELSE IF prog = "topsort" THEN ToolInit({"vector"})
     ELSE ToolIdle

Next ==
  \/ \E rewind \in BOOLEAN : Read(rewind)
  \/ \E h \in Headers : Write(h)
  \/ Reopen
  \/ \E s \in Sources, hp \in Pointers, i \in Pointers, o \in Pointers :
       FstReadOptionsWithHeader(s, hp, i, o)
  \/ \E s \in Sources, i \in Pointers, o \in Pointers : FstReadOptionsNoHeader(s, i, o)
  \/ ConvertMainArgs
  \/ ConvertMainRead
  \/ ConvertMainConvert
  \/ ConvertMainWrite
  \/ TopSortMainArgs
  \/ TopSortMainRead
  \/ TopSortMainCopy
  \/ TopSortMainSort
  \/ TopSortMainWrite

Spec == Init /\ [][Next]_vars

\* fsttopsort: main runs on until it returns.
TopSortMain ==
  \/ TopSortMainArgs
  \/ TopSortMainRead
  \/ TopSortMainCopy
  \/ TopSortMainSort
  \/ TopSortMainWrite

FairSpec == Spec /\ WF_vars(TopSortMain)

----------------------------------------------------------------------------
(* The claims. *)

\* The header invariant: start_state is -1 or a state id below num_states.
ValidStart(h) ==
  \/ h.start_ = I64(-1)
  \/ ~Less64(h.start_, I64(0)) /\ Less64(h.start_, h.numstates_)

Calls == 1 .. Len(rcalls)

\* C1: a header written by FstHeader::Write on an empty stream is read back by
\* FstHeader::Read from the bytes written: the call succeeds and the record
\* read equals the record written, field for field.
C1_RoundTrip ==
  \A i \in Calls :
    (src.by = "Write" /\ src.ok /\ rcalls[i].pos0 = src.at)
      => rcalls[i].ret /\ rcalls[i].hdr = src.hs[1]

C1_Witness ==
  \E i \in Calls :
    /\ src.by = "Write" /\ src.ok /\ rcalls[i].pos0 = src.at /\ rcalls[i].ret
    /\ rcalls[i].hdr.fsttype_ = StrVector /\ rcalls[i].hdr.version_ = -1
    /\ rcalls[i].hdr.numarcs_ = [hi |-> 256, lo |-> 7]

C3_ReadFailedRestores ==
  \A i \in Calls :
    (rcalls[i].magic = kFstMagicNumber /\ ~rcalls[i].ret)
      => /\ rcalls[i].logged = <<ErrReadFailed>>
         /\ rcalls[i].rewind => rcalls[i].pos1 = rcalls[i].pos0

\* C4: a successful FstHeader::Read with rewind leaves the stream where it was,
\* and the next Read from there succeeds with the same header; without rewind
\* it leaves the stream right after the num_arcs field of the header read.
C4_SuccessPosition ==
  \A i \in Calls :
    rcalls[i].ret =>
      IF rcalls[i].rewind
      THEN /\ rcalls[i].pos1 = rcalls[i].pos0
           /\ (i + 1) \in Calls =>
                rcalls[i + 1].ret /\ rcalls[i + 1].hdr = rcalls[i].hdr
      ELSE /\ rcalls[i].pos1 = rcalls[i].pos0 + Len(HeaderLayout(rcalls[i].hdr))
           /\ SubSeq(istrm.buf, rcalls[i].pos1 - 7, rcalls[i].pos1)
                = Int64Bytes(rcalls[i].hdr.numarcs_)

C4_Witness ==
  /\ Len(rcalls) >= 2
  /\ rcalls[1].ret /\ rcalls[1].rewind /\ rcalls[1].pos0 = 3
  /\ rcalls[2].ret /\ ~rcalls[2].rewind /\ rcalls[2].pos1 > 3

\* C5: FstHeader::Write emits the magic number and the eight fields in the
\* order FstHeader::Read consumes them, and returns success exactly when the
\* stream did not fault.
C5_WriteResult ==
  \A i \in 1 .. Len(wcalls) :
    /\ wcalls[i].ret = ~wcalls[i].bad
    /\ ~wcalls[i].bad =>
         SubSeq(ostrm.buf, wcalls[i].len0 + 1,
                wcalls[i].len0 + Len(HeaderLayout(wcalls[i].h)))
           = HeaderLayout(wcalls[i].h)

\* C6 as stated: every header FstHeader::Read returns with success satisfies
\* the header invariant.
C6_ReadValidates ==
  \A i \in Calls : rcalls[i].ret => ValidStart(rcalls[i].hdr)

\* C6 as amended: FstHeader::Read makes no range check; a header it returns
\* with success has the start_state and num_states the stream encodes, and so
\* satisfies the header invariant whenever the encoded header does.
C6_ReadPreserves ==
  \A i \in Calls :
    (rcalls[i].ret /\ src.ok /\ rcalls[i].pos0 = src.at)
      => /\ rcalls[i].hdr.start_ = src.hs[1].start_
         /\ rcalls[i].hdr.numstates_ = src.hs[1].numstates_
         /\ ValidStart(src.hs[1]) => ValidStart(rcalls[i].hdr)

C6_Witness ==
  \E i \in Calls :
    /\ rcalls[i].ret /\ src.ok /\ src.by = "file" /\ rcalls[i].pos0 = src.at
    /\ src.hs[1].start_ = I64(1) /\ src.hs[1].numstates_ = I64(2)
    /\ ValidStart(rcalls[i].hdr)

\* C7: fstconvert exits with 0 only when the read, the conversion and the
\* write all succeeded, and with 1 when any of them failed.
C7_ConvertExit ==
  (prog = "convert" /\ pc = "done") =>
    /\ exitcode = 0 => (ifst # 0 /\ ofst # 0 /\ outfile.status = "ok")
    /\ (ifst = 0 \/ ofst = 0 \/ outfile.status = "failed") => exitcode = 1

\* C8: in fsttopsort a successful read always leads to the write of the result
\* and to exit code 0, whether or not TopSort found a cycle; a cycle only adds
\* a warning, logged before the write; a failed read gives exit code 1.
C8_TopSortExit ==
  /\ [](prog = "topsort" /\ pc = "done" /\ ifst = 0 => exitcode = 1)
  /\ [](prog = "topsort" /\ pc = "done" /\ ifst # 0
          => exitcode = 0 /\ outfile.status # "none")
  /\ [](prog = "topsort" /\ pc = "write" => (log = <<WarnCyclic>>) = ~acyclic)
  /\ (prog = "topsort" /\ ifst # 0)
       ~> (pc = "done" /\ exitcode = 0 /\ outfile.status # "none")

C8_Witness ==
  /\ prog = "topsort" /\ pc = "done" /\ ifst # 0 /\ ~acyclic
  /\ log = <<WarnCyclic>> /\ exitcode = 0 /\ outfile.status = "ok"

\* C9: FstReadOptions::ReadMode yields READ for "read", MAP for "map", and for
\* any other string logs an error and yields READ; it yields nothing else.
C9_ReadMode ==
  opts # NoOptions =>
    /\ opts.mode \in {"READ", "MAP"}
    /\ flagmode = "read" => opts.mode = "READ" /\ log = <<>>
    /\ flagmode = "map" => opts.mode = "MAP" /\ log = <<>>
    /\ flagmode \notin {"read", "map"} =>
         opts.mode = "READ" /\ log = <<ErrUnknownMode(flagmode)>>

C9_Witness ==
  /\ opts # NoOptions /\ flagmode = "bogus" /\ opts.mode = "READ"
  /\ log = <<ErrUnknownMode("bogus")>>

\* C10: when a tool writes its output, the automaton has exactly one live
\* handle, the one written: a handle superseded by a conversion or a mutable
\* copy has been released, and otherwise the handle read is the one written.
C10_OneLiveHandle ==
  (prog \in {"convert", "topsort"} /\ pc = "write") =>
    DOMAIN heap = {ofst}

====
